---- MODULE Spec2Model ----
(***************************************************************************)
(* Helios: the module environment (McEnvironment), the ITIE block of the   *)
(* ACE reader (ITIEBlock), the cylinder-on-axis surface                    *)
(* (CylinderOnAxis<axis>) and the cell lists of the universes (Universe),  *)
(* each as a state machine of its operations.                              *)
(***************************************************************************)
EXTENDS Integers, Sequences, FiniteSets, TLC

(***************************************************************************)
(* Bounds of the model.                                                    *)
(***************************************************************************)
\* Largest total number of objects staged in object_map.
MaxStaged == 2
\* Longest argument sequence handed to pushObjects / createModule.
MaxDefs == 2
\* Largest table length L of an ITIE block.
MaxLen == 2
\* Number of JXS slots of the model's tables.
JxsSize == 3
\* Longest coefficient vector handed to a surface constructor.
MaxCoeffs == 4
\* Longest chain of transformate calls followed from one surface.
MaxClones == 2
\* Largest number of Universe::addCell calls.
MaxAdds == 3

VARIABLES
    factory_map,   \* McEnvironment::factory_map : name -> factory
    module_map,    \* McEnvironment::module_map  : name -> module
    object_map,    \* McEnvironment::object_map  : name -> staged objects
    obj_env,       \* every McObject's environment back-reference
    last,          \* the last call made on the environment and its outcome
    pushed,        \* history: every object pushed so far, in push order
    ITIE,          \* SabTable::ITIE, the JXS slot of the ITIE block
    block,         \* the ITIEBlock parsed from XSS: its energy and sigma_in
    consumed,      \* history: the words the constructor read from XSS
    dumped,        \* the stream ITIEBlock::dump wrote
    reparsed,      \* the ITIEBlock parsed from the dumped stream
    upd,           \* the arrays of the last updatePointers call, before and after
    ace_pc,        \* what has been done with the block so far
    surf,          \* the last cylinder-on-axis construction and its outcome
    clones,        \* the surfaces transformate returned, each from the one before
    cells,         \* Universe::cells of every universe
    parent,        \* Cell::parent of every cell
    added          \* history: every addCell call so far, as <<universe, cell>>

envVars == <<factory_map, module_map, object_map, obj_env, last, pushed>>

aceVars == <<ITIE, block, consumed, dumped, reparsed, upd, ace_pc>>

cylVars == <<surf, clones>>

uniVars == <<cells, parent, added>>

vars == <<factory_map, module_map, object_map, obj_env, last, pushed,
          ITIE, block, consumed, dumped, reparsed, upd, ace_pc, surf,
          clones, cells, parent, added>>

(***************************************************************************)
(* The collaborators of the environment: module names, factories, objects. *)
(***************************************************************************)
ModuleNames == {"materials", "geometry"}

\* Two factories share the name "materials": registering the second one
\* replaces the first in factory_map.
Factories == {"fMatA", "fMatB", "fGeo"}

getName(f) == IF f = "fGeo" THEN "geometry" ELSE "materials"

Objects == {"o1", "o2", "o3"}

getModuleName(o) == IF o = "o3" THEN "geometry" ELSE "materials"

\* User ids need not be unique within a module.
UserIds == {"u1", "u2"}

getUserId(o) == IF o = "o2" THEN "u2" ELSE "u1"

\* Values of an object's environment pointer.
NoEnv == "null"

ThisEnv == "this"

(***************************************************************************)
(* std::map and std::vector helpers.                                       *)
(***************************************************************************)
\* m[k] = v of std::map: inserts the key when absent, replaces otherwise.
MapPut(m, k, v) == [x \in (DOMAIN m) \cup {k} |-> IF x = k THEN v ELSE m[x]]

\* m[k] of std::map read after operator[] default-constructed a vector.
MapVec(m, k) == IF k \in DOMAIN m THEN m[k] ELSE <<>>

\* The number of objects staged over all module names.
Staged(om) ==
    LET names == DOMAIN om
        RECURSIVE Sum(_)
        Sum(S) == IF S = {} THEN 0
                  ELSE LET n == CHOOSE x \in S : TRUE
                       IN Len(om[n]) + Sum(S \ {n})
    IN Sum(names)

SeqsUpTo(S, n) == UNION {[1..k -> S] : k \in 0..n}

(***************************************************************************)
(* ModuleFactory::create and the module it builds.  The module remembers   *)
(* the factory that built it and the definitions it was built from; its    *)
(* dynamic type is the one named by the factory.                           *)
(***************************************************************************)
Create(f, definitions) ==
    [type |-> getName(f), factory |-> f, defs |-> definitions]

\* dynamic_cast<Module*>(ptr): the pointer, or null when the type differs.
DynamicCast(mod, M) == IF mod.type = M THEN <<mod>> ELSE <<>>

\* The module's own indexed lookup of a user id: every definition of the
\* module carrying that id, in order.
ModuleLookup(mod, id) ==
    SelectSeq(mod.defs, LAMBDA o : getUserId(o) = id)

(***************************************************************************)
(* The record of a call: its operation, template argument, arguments and   *)
(* outcome (status "ok" or the error thrown), the factory calls it made.   *)
(***************************************************************************)
Call(op, M, args, id, status, what, mods, objs, flag, calls) ==
    [op |-> op, module |-> M, args |-> args, id |-> id,
     status |-> status, what |-> what,
     ret_module |-> mods, ret_objects |-> objs, ret_bool |-> flag,
     calls |-> calls]

Ok(op, M, args, id, mods, objs, flag, calls) ==
    Call(op, M, args, id, "ok", "", mods, objs, flag, calls)

\* throw(GeneralError(message))
Throw(op, M, args, id, what) ==
    Call(op, M, args, id, "GeneralError", what, <<>>, <<>>, FALSE, <<>>)

\* The state of the environment right after its construction.
EnvStart ==
    /\ factory_map = <<>>
    /\ module_map = <<>>
    /\ object_map = <<>>
    /\ obj_env = [o \in Objects |-> NoEnv]
    /\ last = Ok("construct", "", <<>>, "", <<>>, <<>>, FALSE, <<>>)
    /\ pushed = <<>>

(***************************************************************************)
(* registerFactory                                                         *)
(***************************************************************************)
registerFactory(f) ==
    /\ factory_map' = MapPut(factory_map, getName(f), f)
    /\ last' = Ok("registerFactory", getName(f), <<>>, "", <<>>, <<>>, FALSE, <<>>)
    /\ UNCHANGED <<module_map, object_map, obj_env, pushed, aceVars, cylVars, uniVars>>

(***************************************************************************)
(* pushObject / pushObjects                                                *)
(***************************************************************************)
\* (mutant) the object is inserted at the front of its list
PushFront(om, o) ==
    MapPut(om, getModuleName(o), <<o>> \o MapVec(om, getModuleName(o)))

\* object_map[object->getModuleName()].push_back(object)
PushBack(om, o) ==
    MapPut(om, getModuleName(o), Append(MapVec(om, getModuleName(o)), o))

\* object->setEnvironment(this)
setEnvironment(env, o) == [env EXCEPT ![o] = ThisEnv]

pushObject(o) ==
    /\ Staged(object_map) < MaxStaged
    /\ obj_env' = setEnvironment(obj_env, o)
    /\ object_map' = PushBack(object_map, o)
    /\ last' = Ok("pushObject", "", <<o>>, "", <<>>, <<>>, FALSE, <<>>)
    /\ pushed' = Append(pushed, o)
    /\ UNCHANGED <<factory_map, module_map, aceVars, cylVars, uniVars>>

RECURSIVE PushAll(_, _)
PushAll(om, s) ==
    IF s = <<>> THEN om ELSE PushAll(PushBack(om, Head(s)), Tail(s))

RECURSIVE SetEnvAll(_, _)
SetEnvAll(env, s) ==
    IF s = <<>> THEN env ELSE SetEnvAll(setEnvironment(env, Head(s)), Tail(s))

pushObjects(s) ==
    /\ Staged(object_map) + Len(s) <= MaxStaged
    /\ obj_env' = SetEnvAll(obj_env, s)
    /\ object_map' = PushAll(object_map, s)
    /\ last' = Ok("pushObjects", "", s, "", <<>>, <<>>, FALSE, <<>>)
    /\ pushed' = pushed \o s
    /\ UNCHANGED <<factory_map, module_map, aceVars, cylVars, uniVars>>

(***************************************************************************)
(* setupModule<Module>                                                     *)
(***************************************************************************)
\* (mutant) the missing factory is swallowed: the call returns silently
setupModuleNoFactorySilent(M) ==
    /\ last' = Ok("setupModule", M, <<>>, "", <<>>, <<>>, FALSE, <<>>)
    /\ UNCHANGED <<factory_map, module_map, object_map, obj_env, pushed, aceVars, cylVars, uniVars>>

\* the else branch: no factory is registered
setupModuleNoFactory(M) ==
    /\ last' = Throw("setupModule", M, <<>>, "", "NoFactoryRegistered")
    /\ UNCHANGED <<factory_map, module_map, object_map, obj_env, pushed, aceVars, cylVars, uniVars>>

\* (mutant) no early return: the factory is called with no definitions
setupModuleNoDefinitionsCreate(M) ==
    /\ module_map' = MapPut(module_map, M, Create(factory_map[M], <<>>))
    /\ last' = Ok("setupModule", M, <<>>, "", <<>>, <<>>, FALSE,
                  <<[factory |-> factory_map[M], defs |-> <<>>]>>)
    /\ UNCHANGED <<factory_map, object_map, obj_env, pushed, aceVars, cylVars, uniVars>>

\* itObject == object_map.end(): no definition, cannot setup
setupModuleNoDefinitions(M) ==
    /\ last' = Ok("setupModule", M, <<>>, "", <<>>, <<>>, FALSE, <<>>)
    /\ UNCHANGED <<factory_map, module_map, object_map, obj_env, pushed, aceVars, cylVars, uniVars>>

\* (mutant) the module is built and never stored
setupModuleCreateNoStore(M) ==
    /\ last' = Ok("setupModule", M, <<>>, "", <<>>, <<>>, FALSE,
                  <<[factory |-> factory_map[M], defs |-> object_map[M]]>>)
    /\ UNCHANGED <<factory_map, module_map, object_map, obj_env, pushed, aceVars, cylVars, uniVars>>

\* definitions = itObject->second; mod = factory->create(definitions);
\* module_map[module] = mod
setupModuleCreate(M) ==
    LET definitions == object_map[M]
        mod == Create(factory_map[M], definitions)
    IN /\ module_map' = MapPut(module_map, M, mod)
       /\ last' = Ok("setupModule", M, <<>>, "", <<>>, <<>>, FALSE,
                     <<[factory |-> factory_map[M], defs |-> definitions]>>)
       /\ UNCHANGED <<factory_map, object_map, obj_env, pushed, aceVars, cylVars, uniVars>>

setupModule(M) ==
    IF M \in DOMAIN factory_map
    THEN IF M \notin DOMAIN object_map
         THEN setupModuleNoDefinitions(M)
         ELSE setupModuleCreate(M)
    ELSE setupModuleNoFactory(M)

(***************************************************************************)
(* createModule<Module>                                                    *)
(***************************************************************************)
\* (mutant) every supplied definition is taken, whatever its module
RelatedAll(M, user_definitions) == user_definitions

\* the definitions of user_definitions related to this module, in order
Related(M, user_definitions) ==
    SelectSeq(user_definitions, LAMBDA o : getModuleName(o) = M)

createModule(M, user_definitions) ==
    IF M \in DOMAIN factory_map
    THEN LET definitions == Related(M, user_definitions)
         IN /\ obj_env' = SetEnvAll(obj_env, definitions)
            /\ last' = IF Len(definitions) = 0
                       THEN Throw("createModule", M, user_definitions, "",
                                  "NoObjectsForModule")
                       ELSE Ok("createModule", M, user_definitions, "",
                               DynamicCast(Create(factory_map[M], definitions), M),
                               <<>>, FALSE,
                               <<[factory |-> factory_map[M], defs |-> definitions]>>)
            /\ UNCHANGED <<factory_map, module_map, object_map, pushed, aceVars, cylVars, uniVars>>
    ELSE /\ last' = Throw("createModule", M, user_definitions, "",
                          "NoFactoryRegistered")
         /\ UNCHANGED <<factory_map, module_map, object_map, obj_env, pushed, aceVars, cylVars, uniVars>>

(***************************************************************************)
(* getModule<Module> / isModuleSet<Module> / getObject<Module,Object>      *)
(***************************************************************************)
\* (mutant) a missing module yields a null pointer instead of an error
getModuleNull(M) ==
    /\ last' = IF M \in DOMAIN module_map
               THEN Ok("getModule", M, <<>>, "", DynamicCast(module_map[M], M),
                       <<>>, FALSE, <<>>)
               ELSE Ok("getModule", M, <<>>, "", <<>>, <<>>, FALSE, <<>>)
    /\ UNCHANGED <<factory_map, module_map, object_map, obj_env, pushed, aceVars, cylVars, uniVars>>

getModule(M) ==
    /\ last' = IF M \in DOMAIN module_map
               THEN Ok("getModule", M, <<>>, "", DynamicCast(module_map[M], M),
                       <<>>, FALSE, <<>>)
               ELSE Throw("getModule", M, <<>>, "", "ModuleMissingOnInput")
    /\ UNCHANGED <<factory_map, module_map, object_map, obj_env, pushed, aceVars, cylVars, uniVars>>

isModuleSet(M) ==
    /\ last' = Ok("isModuleSet", M, <<>>, "", <<>>, <<>>,
                  M \in DOMAIN module_map, <<>>)
    /\ UNCHANGED <<factory_map, module_map, object_map, obj_env, pushed, aceVars, cylVars, uniVars>>

\* modPtr->getObject<Object>(id): the module's lookup, which throws when the
\* module holds no object with that id.
ModuleGetObject(M, mod, id) ==
    IF ModuleLookup(mod, id) = <<>>
    THEN Throw("getObject", M, <<>>, id, "ObjectMissing")
    ELSE Ok("getObject", M, <<>>, id, <<>>, ModuleLookup(mod, id), FALSE, <<>>)

getObject(M, id) ==
    /\ last' = IF M \in DOMAIN module_map
               THEN ModuleGetObject(M, Head(DynamicCast(module_map[M], M)), id)
               ELSE Throw("getObject", M, <<>>, id, "ModuleNotLoaded")
    /\ UNCHANGED <<factory_map, module_map, object_map, obj_env, pushed, aceVars, cylVars, uniVars>>

EnvStep ==
    \/ \E f \in Factories : registerFactory(f)
    \/ \E o \in Objects : pushObject(o)
    \/ \E s \in SeqsUpTo(Objects, MaxDefs) : pushObjects(s)
    \/ \E M \in ModuleNames : setupModule(M)
    \/ \E M \in ModuleNames : \E s \in SeqsUpTo(Objects, MaxDefs) : createModule(M, s)
    \/ \E M \in ModuleNames : getModule(M)
    \/ \E M \in ModuleNames : isModuleSet(M)
    \/ \E M \in ModuleNames : \E id \in UserIds : getObject(M, id)


(***************************************************************************)
(* The ITIE block of the ACE reader.  A word of XSS is a double, held here *)
(* in half units (the word w stands for w/2), so that reading a count is a *)
(* real double -> int conversion.                                          *)
(***************************************************************************)
\* Energies and cross-sections of the tables: 0.5 and 2.0.
DataWords == {1, 4}

NoUpdate == [nxs_in |-> <<>>, nxs_out |-> <<>>, jxs_old |-> <<>>,
             jxs_new_in |-> <<>>, jxs_new_out |-> <<>>]

\* (int) of a non-negative double
ToInt(w) == w \div 2

\* an int stored as a double
ToDouble(n) == 2 * n

\* ACEBlock::getXSS(int&): the word at cursor it (a 0-based offset)
getXSSInt(xss, it) == ToInt(xss[it + 1])

\* ACEBlock::getXSS(vector<double>&, n): the n words from cursor it on
getXSSVec(xss, it, n) == [i \in 1..n |-> xss[it + i]]

\* ACEBlock::putXSS(int, out)
putXSSInt(n, out) == Append(out, ToDouble(n))

\* ACEBlock::putXSS(vector<double>, out)
putXSSVec(v, out) == out \o v

\* ITIEBlock::ITIEBlock(nxs, jxs, xss, ace_table); jxs is indexed from 1
\* here, so slot ITIE stands for the C index ITIE - 1.
ITIEBlock(jxs, xss) ==
    LET begin == jxs[ITIE] - 1
        table_length == getXSSInt(xss, begin)
    IN [energy |-> getXSSVec(xss, begin + 1, table_length),
        sigma_in |-> getXSSVec(xss, begin + 1 + table_length, table_length)]

\* The words of xss the constructor's cursor passed over.
Consumed(jxs, xss) ==
    LET begin == jxs[ITIE] - 1
    IN SubSeq(xss, begin + 1, begin + 1 + 2 * getXSSInt(xss, begin))

\* (mutant) the cross-sections are written before the energies
dumpSwapped(b, out) ==
    putXSSVec(b.energy, putXSSVec(b.sigma_in, putXSSInt(Len(b.energy), out)))

\* ITIEBlock::dump
dump(b, out) ==
    putXSSVec(b.sigma_in, putXSSVec(b.energy, putXSSInt(Len(b.energy), out)))

\* (mutant) the length word is not counted
getSizeNoLength(b) == Len(b.energy) * 2

\* ITIEBlock::getSize
getSize(b) == Len(b.energy) * 2 + 1

\* ACEBlock::shiftJXSArray: the JXS update rule
shiftJXSArray(jxs_old, jxs_new, slot, size) ==
    [j \in DOMAIN jxs_new |->
        IF jxs_old[j] > jxs_old[slot] THEN jxs_new[j] + size ELSE jxs_new[j]]

\* (mutant) the pointers are shifted by the table length only
updatePointersByLength(b, nxs, jxs_old, jxs_new) ==
    [nxs_in |-> nxs, nxs_out |-> nxs, jxs_old |-> jxs_old, jxs_new_in |-> jxs_new,
     jxs_new_out |-> shiftJXSArray(jxs_old, jxs_new, ITIE, Len(b.energy))]

\* ITIEBlock::updatePointers(nxs, jxs_old, jxs_new): the arrays before and
\* after the call
updatePointers(b, nxs, jxs_old, jxs_new) ==
    [nxs_in |-> nxs, nxs_out |-> nxs, jxs_old |-> jxs_old, jxs_new_in |-> jxs_new,
     jxs_new_out |-> shiftJXSArray(jxs_old, jxs_new, ITIE, getSize(b))]

\* A JXS array whose ITIE slot points (1-based) at ptr.
JxsAt(ptr) == [j \in 1..JxsSize |-> IF j = ITIE THEN ptr ELSE 0]

\* The well-formed XSS arrays of the model: a block of table length L laid
\* out after pre and before post.
XssOf(pre, L, e, s, post) == pre \o <<ToDouble(L)>> \o e \o s \o post

\* No block has been read yet.
AceStart ==
    /\ ITIE \in 1..JxsSize
    /\ block = <<>>
    /\ consumed = [ptr |-> 0, words |-> <<>>]
    /\ dumped = <<>>
    /\ reparsed = <<>>
    /\ upd = NoUpdate
    /\ ace_pc = "none"

\* The table reader builds the block from XSS at JXS[ITIE].
Parse ==
    /\ ace_pc = "none"
    /\ \E L \in 0..MaxLen, pre \in SeqsUpTo(DataWords, 1), post \in SeqsUpTo(DataWords, 1) :
         \E e \in [1..L -> DataWords], s \in [1..L -> DataWords] :
           LET xss == XssOf(pre, L, e, s, post)
               jxs == JxsAt(Len(pre) + 1)
           IN /\ block' = <<ITIEBlock(jxs, xss)>>
              /\ consumed' = [ptr |-> jxs[ITIE], words |-> Consumed(jxs, xss)]
    /\ ace_pc' = "parsed"
    /\ UNCHANGED <<ITIE, dumped, reparsed, upd, envVars, cylVars, uniVars>>

\* The block is dumped into an empty stream.
Dump ==
    /\ ace_pc = "parsed"
    /\ dumped' = dump(block[1], <<>>)
    /\ ace_pc' = "dumped"
    /\ UNCHANGED <<ITIE, block, consumed, reparsed, upd, envVars, cylVars, uniVars>>

\* The dumped stream is parsed again; the block starts the stream.
Reparse ==
    /\ ace_pc = "dumped"
    /\ reparsed' = <<ITIEBlock(JxsAt(1), dumped)>>
    /\ ace_pc' = "reparsed"
    /\ UNCHANGED <<ITIE, block, consumed, dumped, upd, envVars, cylVars, uniVars>>

\* The pointers of a table are recalculated for this block (the model
\* follows one such call per block).
UpdatePointers ==
    /\ ace_pc # "none"
    /\ upd = NoUpdate
    /\ \E jxs_old \in [1..JxsSize -> 1..3], shifted \in {0, 4} :
         upd' = updatePointers(block[1], <<Len(block[1].energy)>>, jxs_old,
                               [j \in 1..JxsSize |-> jxs_old[j] + shifted])
    /\ UNCHANGED <<ITIE, block, consumed, dumped, reparsed, ace_pc, envVars, cylVars, uniVars>>

(***************************************************************************)
(* The cylinder-on-axis surface.                                           *)
(***************************************************************************)
xaxis == 0

yaxis == 1

zaxis == 2

Axes == {xaxis, yaxis, zaxis}

SurfaceIds == {"1", "2"}

CoeffValues == {0, 2, 5}

\* A coordinate the constructor has not assigned yet.
Unset == "unset"

\* The loop of the constructor over i = from..2: the off-axis coordinates
\* take coeffs[k + 1] (0-based) in turn.
RECURSIVE FillPoint(_, _, _, _, _)
FillPoint(point, axis, coeffs, i, k) ==
    IF i >= 3 THEN point
    ELSE IF i # axis
         THEN FillPoint([point EXCEPT ![i] = coeffs[(k + 1) + 1]], axis, coeffs,
                        i + 1, k + 1)
         ELSE FillPoint(point, axis, coeffs, i + 1, k)

\* CylinderOnAxis<axis>::CylinderOnAxis(surid, coeffs, flags): the surface
\* built, or the exception thrown.  Coordinates are indexed 0..2.
CylinderOnAxis(axis, surid, coeffs, flags) ==
    IF Len(coeffs) = 3
    THEN [status |-> "ok",
          surface |-> <<[user_id |-> surid, flags |-> flags, axis |-> axis,
                         radius |-> coeffs[0 + 1],
                         point |-> FillPoint([[i \in 0..2 |-> Unset] EXCEPT ![axis] = 0],
                                             axis, coeffs, 0, 0)]>>]
    ELSE [status |-> "BadSurfaceCreation", surface |-> <<>>]

\* No surface has been asked for yet.
CylStart ==
    /\ surf = [op |-> "none", axis |-> xaxis, surid |-> "", coeffs |-> <<>>,
               status |-> "", surface |-> <<>>]
    /\ clones = <<>>

\* A surface is constructed; the model starts a new chain of clones only
\* before any clone was made.
Construct ==
    /\ clones = <<>>
    /\ \E axis \in Axes, surid \in SurfaceIds, coeffs \in SeqsUpTo(CoeffValues, MaxCoeffs) :
         LET made == CylinderOnAxis(axis, surid, coeffs, 0)
         IN surf' = [op |-> "construct", axis |-> axis, surid |-> surid,
                     coeffs |-> coeffs, status |-> made.status,
                     surface |-> made.surface]
    /\ clones' = <<>>
    /\ UNCHANGED <<envVars, aceVars, uniVars>>

(***************************************************************************)
(* double arithmetic.  A double is modelled as a binary floating-point     *)
(* number with a 3-bit significand, rounded to nearest, ties to even: the  *)
(* integers below 8 in magnitude are exact, then every 2nd, every 4th ...  *)
(***************************************************************************)
Abs(x) == IF x < 0 THEN 0 - x ELSE x

\* The spacing of the representable numbers around magnitude a.
RECURSIVE Quantum(_)
Quantum(a) == IF a < 8 THEN 1 ELSE 2 * Quantum(a \div 2)

\* The representable number nearest to the real x.
Round(x) ==
    LET a == Abs(x)
        q == Quantum(a)
        lo == (a \div q) * q
        rem == a - lo
        r == IF 2 * rem < q THEN lo
             ELSE IF 2 * rem > q THEN lo + q
             ELSE IF (lo \div q) % 2 = 0 THEN lo ELSE lo + q
    IN IF x < 0 THEN 0 - r ELSE r

\* a + b, a - b, a * b of doubles
fadd(a, b) == Round(a + b)

fsub(a, b) == Round(a - b)

fmul(a, b) == Round(a * b)

\* Coordinate + Direction, Coordinate - Coordinate, component by component
CoordAdd(u, v) == [i \in 0..2 |-> fadd(u[i], v[i])]

CoordSub(u, v) == [i \in 0..2 |-> fsub(u[i], v[i])]

\* dotProduct<axis>(u, v): the products of the off-axis components, summed
\* in increasing index order
dotProduct(axis, u, v) ==
    LET off == IF axis = xaxis THEN <<yaxis, zaxis>>
               ELSE IF axis = yaxis THEN <<xaxis, zaxis>>
               ELSE <<xaxis, yaxis>>
    IN fadd(fmul(u[off[1]], v[off[1]]), fmul(u[off[2]], v[off[2]]))

\* CylinderOnAxis<axis>::function(position)
function(s, position) ==
    LET trpos == CoordSub(position, s.point)
    IN fsub(dotProduct(s.axis, trpos, trpos), fmul(s.radius, s.radius))

\* (mutant) the reference point is moved against the translation
transformateBack(s, trans) ==
    [user_id |-> s.user_id, flags |-> s.flags, axis |-> s.axis,
     radius |-> s.radius, point |-> CoordSub(s.point, trans)]

\* CylinderOnAxis<axis>::transformate(trans): the new surface
transformate(s, trans) ==
    LET new_point == CoordAdd(s.point, trans)
    IN [user_id |-> s.user_id, flags |-> s.flags, axis |-> s.axis,
        radius |-> s.radius, point |-> new_point]

TransValues == {0 - 4, 4}

Directions == [0..2 -> TransValues]

PosValues == {0, 1}

Positions == [0..2 -> PosValues]

\* The surface the next transformate is called on: the constructed one, or
\* the last clone.
Receiver(cs) == IF cs = <<>> THEN surf.surface[1] ELSE cs[Len(cs)].surface

\* transformate is called on the latest surface of the chain.
Transformate ==
    /\ surf.surface # <<>>
    /\ Len(clones) < MaxClones
    /\ \E trans \in Directions :
         clones' = Append(clones, [trans |-> trans,
                                   surface |-> transformate(Receiver(clones), trans)])
    /\ UNCHANGED <<surf, envVars, aceVars, uniVars>>

(***************************************************************************)
(* Universe::addCell                                                       *)
(***************************************************************************)
Universes == {"U0", "U1"}

Cells == {"c1", "c2", "c3"}

\* Cell::parent before any setParent.
NoParent == "null"

\* No cell has been added to any universe.
UniStart ==
    /\ cells = [u \in Universes |-> <<>>]
    /\ parent = [c \in Cells |-> NoParent]
    /\ added = <<>>

RECURSIVE Added(_, _)
Added(cs, S) ==
    IF S = {} THEN 0
    ELSE LET u == CHOOSE x \in S : TRUE IN Len(cs[u]) + Added(cs, S \ {u})

\* Universe::addCell(cell) on universe u
addCell(u, cell) ==
    /\ Added(cells, Universes) < MaxAdds
    /\ parent' = [parent EXCEPT ![cell] = u]
    /\ cells' = [cells EXCEPT ![u] = Append(cells[u], cell)]
    /\ added' = Append(added, <<u, cell>>)
    /\ UNCHANGED <<envVars, aceVars, cylVars>>

(***************************************************************************)
(* The specifications: one per component, the others standing still.       *)
(***************************************************************************)
AceIdle ==
    /\ ITIE = 1
    /\ block = <<>>
    /\ consumed = [ptr |-> 0, words |-> <<>>]
    /\ dumped = <<>>
    /\ reparsed = <<>>
    /\ upd = NoUpdate
    /\ ace_pc = "none"

InitEnv == EnvStart /\ AceIdle /\ CylStart /\ UniStart

NextEnv == EnvStep

SpecEnv == InitEnv /\ [][NextEnv]_vars

InitAce == AceStart /\ EnvStart /\ CylStart /\ UniStart

NextAce == Parse \/ Dump \/ Reparse \/ UpdatePointers

SpecAce == InitAce /\ [][NextAce]_vars

InitCyl == CylStart /\ EnvStart /\ AceIdle /\ UniStart

NextCyl == Construct \/ Transformate

SpecCyl == InitCyl /\ [][NextCyl]_vars

InitUni == UniStart /\ EnvStart /\ AceIdle /\ CylStart

NextUni == \E u \in Universes, cell \in Cells : addCell(u, cell)

SpecUni == InitUni /\ [][NextUni]_vars

(***************************************************************************)
(* Properties of the module environment, checked under SpecEnv.            *)
(***************************************************************************)
\* The objects of s whose module name is M, in the order of s.
RECURSIVE OfModule(_, _)
OfModule(s, M) ==
    IF s = <<>> THEN <<>>
    ELSE IF getModuleName(s[1]) = M
         THEN <<s[1]>> \o OfModule(Tail(s), M)
         ELSE OfModule(Tail(s), M)

Range(s) == {s[i] : i \in DOMAIN s}

SetupStep(M) == last'.op = "setupModule" /\ last'.module = M

\* C1: setupModule<M> with no factory registered under M's name throws the
\* no-factory error, calls no factory and leaves module_map as it was,
\* whether or not objects are staged for M.
C1_MissingFactory ==
    [][\A M \in ModuleNames :
         (SetupStep(M) /\ M \notin DOMAIN factory_map)
         => /\ last'.status = "GeneralError"
            /\ last'.what = "NoFactoryRegistered"
            /\ last'.calls = <<>>
            /\ module_map' = module_map]_vars

\* A setupModule<M> that failed for want of a factory while objects were
\* staged under M and another module was already loaded.
C1_Witness ==
    /\ last.op = "setupModule"
    /\ last.status = "GeneralError"
    /\ last.module \notin DOMAIN factory_map
    /\ last.module \in DOMAIN object_map
    /\ module_map # <<>>

\* C2: setupModule<M> with a factory but nothing staged under M returns
\* silently, calls no factory and adds nothing to module_map; as long as
\* nothing is staged under M, getModule<M> throws the module-missing error
\* and isModuleSet<M> answers false.
C2_SkipUnused ==
    [][\A M \in ModuleNames :
         /\ (SetupStep(M) /\ M \in DOMAIN factory_map /\ M \notin DOMAIN object_map)
            => /\ last'.status = "ok"
               /\ last'.calls = <<>>
               /\ module_map' = module_map
               /\ M \notin DOMAIN module_map'
         /\ (last'.op = "getModule" /\ last'.module = M /\ M \notin DOMAIN object_map)
            => /\ last'.status = "GeneralError"
               /\ last'.what = "ModuleMissingOnInput"
         /\ (last'.op = "isModuleSet" /\ last'.module = M /\ M \notin DOMAIN object_map)
            => last'.ret_bool = FALSE]_vars

\* A setupModule<M> that returned silently: M has a factory and no objects.
C2_Witness ==
    /\ last.op = "setupModule"
    /\ last.status = "ok"
    /\ last.calls = <<>>
    /\ last.module \in DOMAIN factory_map
    /\ last.module \notin DOMAIN object_map
    /\ last.module \notin DOMAIN module_map

\* C3: setupModule<M> with a factory and staged objects calls the factory
\* registered under M once, with the objects pushed for M in push order,
\* and stores the module it returns under M (other entries untouched);
\* isModuleSet<M> then answers true and getModule<M> returns that module.
C3_SetupCreates ==
    [][\A M \in ModuleNames :
         /\ (SetupStep(M) /\ M \in DOMAIN factory_map /\ M \in DOMAIN object_map)
            => /\ last'.status = "ok"
               /\ last'.calls = <<[factory |-> factory_map[M],
                                   defs |-> OfModule(pushed, M)]>>
               /\ OfModule(pushed, M) # <<>>
               /\ DOMAIN module_map' = DOMAIN module_map \cup {M}
               /\ module_map'[M] = [type |-> M, factory |-> factory_map[M],
                                    defs |-> OfModule(pushed, M)]
               /\ \A N \in DOMAIN module_map \ {M} : module_map'[N] = module_map[N]
         /\ (last'.op = "isModuleSet" /\ last'.module = M /\ M \in DOMAIN module_map)
            => last'.ret_bool = TRUE
         /\ (last'.op = "getModule" /\ last'.module = M /\ M \in DOMAIN module_map)
            => /\ last'.status = "ok"
               /\ last'.ret_module = <<module_map[M]>>]_vars

\* A setupModule<M> that built a module from two staged objects with the
\* factory that replaced an earlier one of the same name.
C3_Witness ==
    /\ last.op = "setupModule"
    /\ Len(last.calls) = 1
    /\ last.calls[1].factory = "fMatB"
    /\ Len(last.calls[1].defs) = 2
    /\ last.calls[1].defs[1] # last.calls[1].defs[2]
    /\ module_map[last.module].defs = last.calls[1].defs

\* C4: pushObject / pushObjects append each object, in iteration order, at
\* the end of the list staged under its module name and point the object's
\* environment at this environment; every list keeps what it had, in
\* order, and module_map and factory_map are unchanged.
C4_PushAppends ==
    [][(last'.op \in {"pushObject", "pushObjects"})
       => /\ \A N \in ModuleNames :
               MapVec(object_map', N) = MapVec(object_map, N) \o OfModule(last'.args, N)
          /\ DOMAIN object_map' =
               DOMAIN object_map \cup {getModuleName(o) : o \in Range(last'.args)}
          /\ \A o \in Range(last'.args) : obj_env'[o] = ThisEnv
          /\ \A o \in Objects \ Range(last'.args) : obj_env'[o] = obj_env[o]
          /\ module_map' = module_map
          /\ factory_map' = factory_map]_vars

\* A push that appended a second, different object behind one already
\* staged under the same module name.
C4_Witness ==
    /\ last.op \in {"pushObject", "pushObjects"}
    /\ last.args # <<>>
    /\ "materials" \in DOMAIN object_map
    /\ Len(object_map["materials"]) = 2
    /\ object_map["materials"][1] # object_map["materials"][2]
    /\ object_map["materials"][2] = last.args[Len(last.args)]

Lookup == {"getModule", "getObject"}

\* C5 as stated: getModule<M> and getObject<M,O>(id) raise an error exactly
\* when M is absent from module_map.
C5_ErrorIffAbsent ==
    (last.op \in Lookup)
    => ((last.status # "ok") <=> (last.module \notin DOMAIN module_map))

\* C5 amended: getModule<M> raises an error exactly when M is absent from
\* module_map and returns the stored module otherwise; getObject<M,O>(id)
\* raises the environment's module-not-loaded error exactly when M is
\* absent, and when M is present its outcome is that of the module's own
\* lookup for id: the matching objects, or that lookup's own error when the
\* module holds no object with that id.
C5_LookupByModule ==
    /\ (last.op = "getModule")
       => /\ (last.status # "ok") <=> (last.module \notin DOMAIN module_map)
          /\ (last.status = "ok") => last.ret_module = <<module_map[last.module]>>
    /\ (last.op = "getObject")
       => /\ (last.status # "ok" /\ last.what = "ModuleNotLoaded")
               <=> (last.module \notin DOMAIN module_map)
          /\ (last.module \in DOMAIN module_map)
               => LET found == SelectSeq(module_map[last.module].defs,
                                         LAMBDA o : getUserId(o) = last.id)
                  IN /\ (last.status = "ok") <=> (found # <<>>)
                     /\ (last.status = "ok") => last.ret_objects = found
                     /\ (last.status # "ok") => last.what = "ObjectMissing"

\* A getObject on a loaded module that found an object, after the module
\* was set up.
C5_Witness ==
    /\ last.op = "getObject"
    /\ last.module \in DOMAIN module_map
    /\ last.status = "ok"
    /\ last.ret_objects # <<>>

\* C6: createModule<M>(definitions) leaves module_map and object_map as
\* they were; it hands the factory registered under M the supplied
\* definitions whose module name is M, in supplied order, and returns what
\* the factory built; it throws when no factory is registered for M or when
\* no supplied definition belongs to M.
C6_CreateDoesNotLoad ==
    [][\A M \in ModuleNames :
         (last'.op = "createModule" /\ last'.module = M)
         => /\ module_map' = module_map
            /\ object_map' = object_map
            /\ (M \notin DOMAIN factory_map \/ OfModule(last'.args, M) = <<>>)
                 => (last'.status = "GeneralError" /\ last'.calls = <<>>)
            /\ (M \in DOMAIN factory_map /\ OfModule(last'.args, M) # <<>>)
                 => /\ last'.status = "ok"
                    /\ last'.calls = <<[factory |-> factory_map[M],
                                        defs |-> OfModule(last'.args, M)]>>
                    /\ last'.ret_module = <<[type |-> M, factory |-> factory_map[M],
                                             defs |-> OfModule(last'.args, M)]>>]_vars

\* A createModule<M> that built a module from one of two supplied
\* definitions while M stayed unloaded.
C6_Witness ==
    /\ last.op = "createModule"
    /\ last.status = "ok"
    /\ Len(last.args) = 2
    /\ Len(last.calls[1].defs) = 1
    /\ last.module \notin DOMAIN module_map

(***************************************************************************)
(* Properties of the ITIE block, checked under SpecAce.                    *)
(***************************************************************************)
Blocks == block \o reparsed

\* C7: for every ITIE block, getSize() is the number of words dump emits:
\* with L energies dump writes the length word, the L energies and the L
\* cross-sections, and getSize() is 2L + 1; energy and sigma_in have the
\* same length in every block.
C7_SizeIsDumpedWords ==
    /\ \A i \in DOMAIN Blocks :
         LET b == Blocks[i]
             L == Len(b.energy)
         IN /\ Len(b.sigma_in) = L
            /\ getSize(b) = 2 * L + 1
            /\ Len(dump(b, <<>>)) = getSize(b)
    /\ (ace_pc \in {"dumped", "reparsed"})
       => LET L == Len(block[1].energy)
          IN /\ Len(dumped) = getSize(block[1])
             /\ dumped[1] = 2 * L
             /\ SubSeq(dumped, 2, L + 1) = block[1].energy
             /\ SubSeq(dumped, L + 2, 2 * L + 1) = block[1].sigma_in

\* A dumped block of two energies whose cross-sections differ from them.
C7_Witness ==
    /\ ace_pc = "dumped"
    /\ Len(block[1].energy) = 2
    /\ block[1].energy # block[1].sigma_in
    /\ Len(dumped) = 5

\* C8: a block parsed from XSS at JXS[ITIE] - 1, dumped and parsed again
\* from the dumped words is the same block on every field, and the dumped
\* words are the 2L + 1 words the constructor consumed.
C8_RoundTrip ==
    (ace_pc = "reparsed")
    => /\ reparsed[1].energy = block[1].energy
       /\ reparsed[1].sigma_in = block[1].sigma_in
       /\ Len(reparsed[1].energy) = Len(block[1].energy)
       /\ dumped = consumed.words
       /\ Len(consumed.words) = 2 * Len(block[1].energy) + 1

\* A round trip of a block of two energies that did not start its XSS.
C8_Witness ==
    /\ ace_pc = "reparsed"
    /\ consumed.ptr > 1
    /\ Len(block[1].energy) = 2
    /\ block[1].energy[1] # block[1].energy[2]
    /\ block[1].energy # block[1].sigma_in

\* C9: updatePointers adds 2L + 1 to every JXS_new[j] whose JXS_old[j] is
\* greater than JXS_old[ITIE] and leaves every other JXS_new entry, JXS_old
\* and NXS as they were.
C9_UpdatePointers ==
    (upd # NoUpdate)
    => LET L == Len(block[1].energy)
       IN /\ DOMAIN upd.jxs_new_out = DOMAIN upd.jxs_new_in
          /\ \A j \in DOMAIN upd.jxs_new_in :
               upd.jxs_new_out[j] =
                 IF upd.jxs_old[j] > upd.jxs_old[ITIE]
                 THEN upd.jxs_new_in[j] + 2 * L + 1
                 ELSE upd.jxs_new_in[j]
          /\ upd.nxs_out = upd.nxs_in

\* An update that shifted one pointer and left another, for a block of two
\* energies.
C9_Witness ==
    /\ upd # NoUpdate
    /\ Len(block[1].energy) = 2
    /\ \E j, k \in DOMAIN upd.jxs_new_in :
         /\ upd.jxs_new_out[j] = upd.jxs_new_in[j] + 5
         /\ upd.jxs_new_out[k] = upd.jxs_new_in[k]
         /\ k # ITIE

(***************************************************************************)
(* Properties of the cylinder-on-axis surface, checked under SpecCyl.      *)
(***************************************************************************)
\* C10: constructing a cylinder-on-axis from a coefficient vector fails
\* with BadSurfaceCreation and creates no surface whenever the vector has
\* not exactly 3 coefficients or its radius coefficient is zero; with 3
\* coefficients and a non-zero radius it succeeds with radius = coeffs[0],
\* the axis coordinate 0 and the off-axis coordinates coeffs[1], coeffs[2]
\* in increasing axis-index order.
C10_BadSurfaceCreation ==
    (surf.op = "construct")
    => LET c == surf.coeffs
           degenerate == Len(c) # 3 \/ c[1] = 0
       IN /\ degenerate
             => (surf.status = "BadSurfaceCreation" /\ surf.surface = <<>>)
          /\ ~degenerate
             => /\ surf.status = "ok"
                /\ surf.surface[1].radius = c[1]
                /\ surf.surface[1].point[surf.axis] = 0
                /\ LET off == IF surf.axis = xaxis THEN <<yaxis, zaxis>>
                              ELSE IF surf.axis = yaxis THEN <<xaxis, zaxis>>
                              ELSE <<xaxis, yaxis>>
                   IN /\ surf.surface[1].point[off[1]] = c[2]
                      /\ surf.surface[1].point[off[2]] = c[3]

\* The off-axis coordinate indices of a surface.
OffAxis(s) == (0..2) \ {s.axis}

Negated(trans) == [i \in 0..2 |-> 0 - trans[i]]

\* The surface clone k was made from.
Origin(k) == IF k = 1 THEN surf.surface[1] ELSE clones[k - 1].surface

\* No rounding in u[i] + v[i] on the off-axis coordinates of s.
ExactSum(s, u, v) == \A i \in OffAxis(s) : fadd(u[i], v[i]) = u[i] + v[i]

TransformateStep == Len(clones') = Len(clones) + 1

\* The clone made by the step has the user id, flags and radius of the
\* surface it was made from and the reference point point + t, and the
\* step changes neither that surface nor any earlier one.
ClonedByStep ==
    LET orig == Receiver(clones)
        made == clones'[Len(clones')]
    IN /\ made.surface.user_id = orig.user_id
       /\ made.surface.flags = orig.flags
       /\ made.surface.radius = orig.radius
       /\ made.surface.axis = orig.axis
       /\ \A i \in 0..2 : made.surface.point[i] = fadd(orig.point[i], made.trans[i])
       /\ surf' = surf
       /\ SubSeq(clones', 1, Len(clones)) = clones

\* C11 as stated: transformate(t) returns a new surface with the same user
\* id, flags and radius whose reference point is point + t and leaves the
\* original unchanged; for every position p the clone's function(p + t)
\* equals the original's function(p), and translating by t then by -t
\* gives a surface with the same function as the original.
C11_TranslationInvariant ==
    [][TransformateStep
       => /\ ClonedByStep
          /\ LET orig == Receiver(clones)
                 made == clones'[Len(clones')]
             IN \A p \in Positions :
                  function(made.surface, CoordAdd(p, made.trans)) = function(orig, p)
          /\ (Len(clones') >= 2 /\ clones'[Len(clones')].trans = Negated(clones[Len(clones)].trans))
             => \A p \in Positions :
                  function(clones'[Len(clones')].surface, p) = function(Origin(Len(clones)), p)]_vars

\* C11 amended: the clone has the same user id, flags and radius and the
\* reference point point + t (the double sum), and the original is
\* unchanged; the clone's function(p + t) equals the original's
\* function(p) for every p whose off-axis sums p + t, like those of
\* point + t, are exact in double arithmetic, and translating by t then by
\* -t gives a surface with the same function when the off-axis sums of
\* point + t are exact.
C11_TranslationExact ==
    [][TransformateStep
       => /\ ClonedByStep
          /\ LET orig == Receiver(clones)
                 made == clones'[Len(clones')]
             IN \A p \in Positions :
                  (ExactSum(orig, orig.point, made.trans) /\ ExactSum(orig, p, made.trans))
                  => function(made.surface, CoordAdd(p, made.trans)) = function(orig, p)
          /\ (/\ Len(clones') >= 2
              /\ clones'[Len(clones')].trans = Negated(clones[Len(clones)].trans)
              /\ ExactSum(Origin(Len(clones)), Origin(Len(clones)).point,
                          clones[Len(clones)].trans))
             => \A p \in Positions :
                  function(clones'[Len(clones')].surface, p) = function(Origin(Len(clones)), p)]_vars

\* A surface with a non-zero radius and reference point translated by t and
\* back by -t, every sum exact, the first clone away from the original.
C11_Witness ==
    /\ Len(clones) = 2
    /\ surf.surface[1].radius # 0
    /\ clones[2].trans = Negated(clones[1].trans)
    /\ ExactSum(surf.surface[1], surf.surface[1].point, clones[1].trans)
    /\ clones[1].surface.point # surf.surface[1].point
    /\ clones[2].surface.point = surf.surface[1].point
    /\ \E i \in OffAxis(surf.surface[1]) : surf.surface[1].point[i] # 0

(***************************************************************************)
(* Properties of the universes, checked under SpecUni.                     *)
(***************************************************************************)
\* The cells added to universe u, in the order of the calls.
RECURSIVE AddedTo(_, _)
AddedTo(log, u) ==
    IF log = <<>> THEN <<>>
    ELSE IF log[1][1] = u
         THEN <<log[1][2]>> \o AddedTo(Tail(log), u)
         ELSE AddedTo(Tail(log), u)

\* C12: after any sequence of addCell calls, every cell in a universe's
\* cell list has that universe as its parent and appears in the list
\* exactly once, the list being in the order of insertion.
C12_CellsLinkedOnce ==
    \A u \in Universes :
      /\ cells[u] = AddedTo(added, u)
      /\ \A i \in DOMAIN cells[u] :
           /\ parent[cells[u][i]] = u
           /\ \A j \in DOMAIN cells[u] : cells[u][j] = cells[u][i] => j = i

====
